---------------------------- MODULE Spec2Model ----------------------------
(***************************************************************************)
(* Verification model of OpenPower's region-map core:                      *)
(*   - RegionAtlas   (src/src/shared/map/region_atlas.py)                  *)
(*   - MapIndexer    (src/src/core/map_indexer.py)                         *)
(*   - MapRenderer   (src/src/client/renderers/map_renderer.py)            *)
(*                                                                         *)
(* Four specifications share the module:                                   *)
(*   SpecCodec     pack_color / unpack_color on sampled inputs             *)
(*   SpecAtlas     a RegionAtlas built from an arbitrary small image, then *)
(*                 queried                                                 *)
(*   Spec          the on-disk caches of RegionAtlas and MapIndexer under  *)
(*                 source edits, cache damage and crashes                  *)
(*   SpecRenderer  MapRenderer's dense mapping, LUT and selection state    *)
(* Each specification moves only its own variables.                        *)
(***************************************************************************)
EXTENDS Integers, Sequences, FiniteSets, TLC

VARIABLES
    codec,          \* SpecCodec: the last pack_color / unpack_color call
    atlas,          \* SpecAtlas: the RegionAtlas object (or the image it is built from)
    query,          \* SpecAtlas: the last query made on the atlas
    source,         \* Spec: the source image file (bytes and mtime), or missing
    map_file,       \* Spec: <cache_dir>/<base>_packed.npy
    meta_file,      \* Spec: <cache_dir>/<base>_meta.npy
    index_file,     \* Spec: <cache_dir>/<base>_index.npz
    pc,             \* Spec: where the running load stands ("idle": none runs)
    job,            \* Spec: the local variables of the running load
    res,            \* Spec: what the last call returned (or that it crashed)
    prev,           \* Spec: what the call before it returned, when that was
                    \*       the same operation with nothing in between
    renderer,       \* SpecRenderer: the MapRenderer object
    loading,        \* SpecLoading: the LoadingView, its worker thread and task
    saves,          \* SpecSave: the save directory and the running save_game
    session         \* SpecSession: the GameSession and the running tick

vars == <<codec, atlas, query, source, map_file, meta_file, index_file,
          pc, job, res, prev, renderer, loading, saves, session>>

(***************************************************************************)
(* Integer bit operations, as Python computes them on non-negative ints.   *)
(***************************************************************************)
RECURSIVE BitOr(_, _)
BitOr(a, b) ==
    IF a = 0 THEN b
    ELSE IF b = 0 THEN a
    ELSE (IF (a % 2 = 1) \/ (b % 2 = 1) THEN 1 ELSE 0)
         + 2 * BitOr(a \div 2, b \div 2)

RECURSIVE BitAnd(_, _)
BitAnd(a, b) ==
    IF a = 0 \/ b = 0 THEN 0
    ELSE (IF (a % 2 = 1) /\ (b % 2 = 1) THEN 1 ELSE 0)
         + 2 * BitAnd(a \div 2, b \div 2)

RECURSIVE Pow2(_)
Pow2(n) == IF n = 0 THEN 1 ELSE 2 * Pow2(n - 1)

ShiftL(a, n) == a * Pow2(n)
ShiftR(a, n) == a \div Pow2(n)

(***************************************************************************)
(* PixelCodec: RegionAtlas.pack_color / unpack_color.                      *)
(***************************************************************************)
pack_color(r, g, b) == BitOr(BitOr(b, ShiftL(g, 8)), ShiftL(r, 16))

unpack_color_nomask(packed_id) ==
    <<ShiftR(packed_id, 16), ShiftR(packed_id, 8), BitAnd(packed_id, 255)>>

unpack_color(packed_id) ==
    LET b == BitAnd(packed_id, 255)
        g == BitAnd(ShiftR(packed_id, 8), 255)
        r == BitAnd(ShiftR(packed_id, 16), 255)
    IN  <<r, g, b>>

\* Sampled inputs of the codec: byte values and 24-bit ids.
ByteSamples == {0, 1, 2, 127, 128, 254, 255}
IdSamples ==
    {0, 1, 255, 256, 257, 65535, 65536, 65537, 8388608, 11259375,
     16711680, 16777214, 16777215}

NoCall == [op |-> "none"]

CodecInit == codec = NoCall

\* pack_color(r, g, b) followed by unpack_color of what it returned.
PackThenUnpack ==
    \E r \in ByteSamples, g \in ByteSamples, b \in ByteSamples :
        codec' = [op |-> "pack_unpack", r |-> r, g |-> g, b |-> b,
                  id |-> pack_color(r, g, b),
                  rgb |-> unpack_color(pack_color(r, g, b))]

\* unpack_color(id) followed by pack_color of what it returned.
UnpackThenPack ==
    \E id \in IdSamples :
        LET c == unpack_color(id)
        IN  codec' = [op |-> "unpack_pack", id |-> id, rgb |-> c,
                      back |-> pack_color(c[1], c[2], c[3])]

(***************************************************************************)
(* Images and rasters.  An image is a grid of (r, g, b) byte triples,      *)
(* origin top-left, indexed <<row, col>>.                                  *)
(***************************************************************************)
ImgW == 2
Rows == 0 .. 1
Cols == 0 .. (ImgW - 1)
Pix == Rows \X Cols
ImgH == Cardinality(Rows)

\* Palette of the images: black (background), and two region colours that
\* differ in different bytes.
Palette == {<<0, 0, 0>>, <<0, 0, 5>>, <<0, 1, 0>>}
Images == [Pix -> Palette]

SetMin(S) == CHOOSE m \in S : \A e \in S : m <= e
SetMax(S) == CHOOSE m \in S : \A e \in S : m >= e

\* The elements of a finite set of integers in ascending order.
RECURSIVE SortedSeq(_)
SortedSeq(S) ==
    IF S = {} THEN <<>>
    ELSE LET m == SetMin(S) IN <<m>> \o SortedSeq(S \ {m})

SeqRange(s) == {s[i] : i \in DOMAIN s}

\* A Python/numpy array of the elements of a sequence: indices from 0.
Array0(s) == [i \in 0 .. (Len(s) - 1) |-> s[i + 1]]

\* np.unique(arr): the sorted distinct values of an array.
np_unique_keepdups(arr) ==
    LET vals == {arr[p] : p \in DOMAIN arr}
        below(v) == Cardinality({p \in DOMAIN arr : arr[p] < v})
        n == Cardinality(DOMAIN arr)
    IN  [i \in 0 .. (n - 1) |->
            CHOOSE v \in vals :
                below(v) <= i
                /\ i < below(v)
                       + Cardinality({p \in DOMAIN arr : arr[p] = v})]

np_unique(arr) == Array0(SortedSeq({arr[p] : p \in DOMAIN arr}))

\* The second value of np.unique(arr, return_inverse=True): for each element
\* the index of its value in the unique array.
np_unique_inverse(arr) ==
    LET u == np_unique(arr)
    IN  [p \in DOMAIN arr |-> CHOOSE i \in DOMAIN u : u[i] = arr[p]]

\* Step 1 of _rebuild_cache: cv2.split + the vectorised packing formula.
pack_image(img) ==
    [p \in DOMAIN img |->
        LET r == img[p][1]
            g == img[p][2]
            b == img[p][3]
        IN  BitOr(BitOr(b, ShiftL(g, 8)), ShiftL(r, 16))]

\* Step 2 of _rebuild_cache: one np.where per id of np.unique(packed), id 0
\* skipped; the entry is (y_min, y_max, x_min, x_max).
compute_bounds_typo(packed) ==
    LET ids == {rid \in SeqRange(np_unique(packed)) : rid # 0}
    IN  [rid \in ids |->
            LET hit == {p \in DOMAIN packed : packed[p] = rid}
                ys == {p[1] : p \in hit}
                xs == {p[2] : p \in hit}
            IN  <<SetMin(ys), SetMax(ys), SetMin(xs), SetMax(ys)>>]

compute_bounds(packed) ==
    LET ids == {rid \in SeqRange(np_unique(packed)) : rid # 0}
    IN  [rid \in {i \in ids : \E p \in DOMAIN packed : packed[p] = i} |->
            LET hit == {p \in DOMAIN packed : packed[p] = rid}
                ys == {p[1] : p \in hit}
                xs == {p[2] : p \in hit}
            IN  <<SetMin(ys), SetMax(ys), SetMin(xs), SetMax(xs)>>]

\* The passes over the whole raster that step 2 of _rebuild_cache makes:
\* one for np.unique(packed), and for every id but 0 one for the mask
\* packed == rid and one for np.where over that mask.
bounds_scans(packed) ==
    LET ids == {rid \in SeqRange(np_unique(packed)) : rid # 0}
    IN  1 + 2 * Cardinality(ids)

(***************************************************************************)
(* SpecAtlas: a RegionAtlas constructed over an empty cache directory, so  *)
(* that __init__ -> _load_data -> _rebuild_cache bakes the image.          *)
(***************************************************************************)
\* arr.shape of a 2-D array: (rows, columns).
array_shape(arr) ==
    <<SetMax({p[1] : p \in DOMAIN arr}) + 1,
      SetMax({p[2] : p \in DOMAIN arr}) + 1>>

AtlasInit == atlas \in {[state |-> "image", img |-> i] : i \in Images}

\* RegionAtlas.__init__ with no cache on disk.  memo is the table of
\* lru_cache around render_country_overlay, empty so far; calls is the
\* history of the memoised calls, kept for the properties only.
Construct ==
    /\ atlas.state = "image"
    /\ LET packed == pack_image(atlas.img)
       IN  atlas' = [state |-> "ready", img |-> atlas.img,
                     packed_map |-> packed,
                     region_bounds |-> compute_bounds(packed),
                     height |-> array_shape(packed)[1],
                     width |-> array_shape(packed)[2],
                     memo |-> <<>>, calls |-> <<>>]
    /\ UNCHANGED query

\* packed_map[y, x] as numpy indexes a 2-D array: negative indices count
\* from the end, anything else out of range raises IndexError.
np_index2(arr, h, w, y, x) ==
    IF y >= -h /\ y < h /\ x >= -w /\ x < w
    THEN [t |-> "return", v |-> arr[<<y % h, x % w>>]]
    ELSE [t |-> "raise", exc |-> "IndexError"]

get_region_at_nolower(a, x, y) ==
    IF x < a.width /\ y < a.height
    THEN np_index2(a.packed_map, a.height, a.width, y, x)
    ELSE [t |-> "return", v |-> 0]

get_region_at(a, x, y) ==
    IF 0 <= x /\ x < a.width /\ 0 <= y /\ y < a.height
    THEN np_index2(a.packed_map, a.height, a.width, y, x)
    ELSE [t |-> "return", v |-> 0]

\* Coordinates handed to get_region_at: inside, on and beyond every edge.
QueryXs == (-ImgW - 1) .. (ImgW + 1)
QueryYs == (-ImgH - 1) .. (ImgH + 1)

GetRegionAt ==
    /\ atlas.state = "ready"
    /\ \E x \in QueryXs, y \in QueryYs :
          query' = [op |-> "get_region_at", x |-> x, y |-> y,
                    res |-> get_region_at(atlas, x, y)]
    /\ UNCHANGED atlas

(***************************************************************************)
(* Spec: the file system seen by RegionAtlas and MapIndexer.               *)
(*                                                                         *)
(* A file is a record tagged t: "none" (absent), "trunc" (present but cut  *)
(* short or not decodable: np.load raises), "npy"/"npz" (decodable, its    *)
(* payload a dict that may lack keys).                                     *)
(***************************************************************************)
MaxMtime == 2
Mtimes == 1 .. MaxMtime

\* File contents of the source: two images that differ in one pixel, and
\* bytes that are no image.
Contents == {"A", "B", "X"}
ImgA == [p \in Pix |-> IF p = <<0, 0>> THEN <<0, 0, 0>> ELSE <<0, 0, 5>>]
ImgB == [ImgA EXCEPT ![<<1, 1>>] = <<0, 1, 0>>]

\* cv2.imread: the decoded image, or None for bytes that are no image.
cv2_imread(bytes) ==
    CASE bytes = "A" -> [t |-> "img", img |-> ImgA]
      [] bytes = "B" -> [t |-> "img", img |-> ImgB]
      [] OTHER -> [t |-> "None"]

\* hashlib.sha256(bytes).hexdigest(): distinct bytes, distinct digests.
sha256_hexdigest(bytes) ==
    CASE bytes = "A" -> "sha256:A"
      [] bytes = "B" -> "sha256:B"
      [] OTHER -> "sha256:X"

NoFile == [t |-> "none"]
Trunc == [t |-> "trunc"]
None == [t |-> "none"]

Disk == <<map_file, meta_file, index_file>>

DropKey(d, k) == [x \in (DOMAIN d) \ {k} |-> d[x]]

\* --- RegionAtlas -------------------------------------------------------

is_cache_valid_never(mapf, metaf, current_mtime) == FALSE

is_cache_valid(mapf, metaf, current_mtime) ==
    IF mapf.t = "none" \/ metaf.t = "none" THEN FALSE
    ELSE IF metaf.t = "trunc" THEN FALSE
    ELSE IF "mtime" \in DOMAIN metaf.dict
         THEN metaf.dict.mtime = current_mtime
         ELSE FALSE

\* The try block of _load_data: meta_data['bounds'] and np.load(map_file).
\* FALSE stands for "an exception was caught".
cache_load_ok(mapf, metaf) ==
    /\ metaf.t = "npy"
    /\ "bounds" \in DOMAIN metaf.dict
    /\ mapf.t = "npy"

NoWork == [decode |-> 0, bounds |-> 0, writes |-> 0]

\* Whether the two cache files are, whole, what a bake of `bytes` writes
\* (whatever modification time it recorded).  Recorded with each load for
\* the properties below; the code never computes it.
BuiltFromBytes(mapf, metaf, bytes) ==
    LET im == cv2_imread(bytes)
    IN  /\ im.t = "img"
        /\ mapf = [t |-> "npy", data |-> pack_image(im.img)]
        /\ metaf.t = "npy"
        /\ DOMAIN metaf.dict = {"mtime", "bounds"}
        /\ metaf.dict.bounds = compute_bounds(pack_image(im.img))

\* RegionAtlas(image_path, cache_dir): __init__ -> _load_data, up to the
\* point where _rebuild_cache opens map_file for writing.
AtlasLoad ==
    /\ pc = "idle"
    /\ IF source.t = "missing"
       THEN /\ res' = [t |-> "raise", op |-> "atlas",
                       exc |-> "FileNotFoundError"]
            /\ prev' = None
            /\ UNCHANGED <<map_file, pc, job>>
       ELSE IF is_cache_valid(map_file, meta_file, source.mtime)
               /\ cache_load_ok(map_file, meta_file)
       THEN /\ res' = [t |-> "atlas", packed_map |-> map_file.data,
                       region_bounds |-> meta_file.dict.bounds,
                       hit |-> TRUE, work |-> NoWork,
                       fresh |-> BuiltFromBytes(map_file, meta_file,
                                                source.bytes)]
            /\ prev' = IF res.t = "atlas" THEN res ELSE None
            /\ UNCHANGED <<map_file, pc, job>>
       ELSE LET im == cv2_imread(source.bytes)
            IN  IF im.t = "None"
                THEN /\ res' = [t |-> "raise", op |-> "atlas",
                                exc |-> "ValueError"]
                     /\ prev' = None
                     /\ UNCHANGED <<map_file, pc, job>>
                ELSE LET packed == pack_image(im.img)
                         bounds_cache == compute_bounds(packed)
                     IN  /\ job' = [packed |-> packed,
                                    bounds |-> bounds_cache,
                                    mtime |-> source.mtime,
                                    fresh |-> BuiltFromBytes(
                                        map_file, meta_file, source.bytes),
                                    before |-> Disk]
                         /\ map_file' = Trunc
                         /\ pc' = "save_map"
                         /\ UNCHANGED <<res, prev>>
    /\ UNCHANGED <<source, meta_file, index_file>>

\* np.save(self.map_file, packed) completes.
AtlasSaveMap ==
    /\ pc = "save_map"
    /\ map_file' = [t |-> "npy", data |-> job.packed]
    /\ pc' = "map_saved"
    /\ UNCHANGED <<source, meta_file, index_file, job, res, prev>>

\* np.save(self.meta_file, meta_payload) opens the file for writing.
AtlasOpenMeta ==
    /\ pc = "map_saved"
    /\ meta_file' = Trunc
    /\ pc' = "save_meta"
    /\ UNCHANGED <<source, map_file, index_file, job, res, prev>>

\* np.save(self.meta_file, meta_payload) completes; _rebuild_cache returns.
AtlasSaveMeta ==
    /\ pc = "save_meta"
    /\ meta_file' = [t |-> "npy",
                     dict |-> [mtime |-> job.mtime, bounds |-> job.bounds]]
    /\ pc' = "idle"
    /\ job' = None
    /\ res' = [t |-> "atlas", packed_map |-> job.packed,
               region_bounds |-> job.bounds, hit |-> FALSE,
               work |-> [decode |-> 1, bounds |-> 1, writes |-> 2],
               fresh |-> job.fresh]
    /\ prev' = IF res.t = "atlas" THEN res ELSE None
    /\ UNCHANGED <<source, map_file, index_file>>

\* --- MapIndexer --------------------------------------------------------

compute_file_hash(src) ==
    IF src.t = "missing" THEN "FILE_NOT_FOUND"
    ELSE sha256_hexdigest(src.bytes)

load_from_cache(idxf, current_hash) ==
    IF idxf.t = "none" THEN None
    ELSE IF idxf.t = "trunc" THEN None
    ELSE IF "hash" \notin DOMAIN idxf.dict THEN None
    ELSE IF idxf.dict.hash # current_hash THEN None
    ELSE IF "unique_ids" \notin DOMAIN idxf.dict
            \/ "dense_map" \notin DOMAIN idxf.dict THEN None
    ELSE [t |-> "some", unique_ids |-> idxf.dict.unique_ids,
          dense_map |-> idxf.dict.dense_map]

\* The arrays a caller hands to get_indices as map_data_array: the raster
\* it decoded from the source image, or, when there is nothing to decode,
\* a raster it still holds.
Arrays ==
    IF source.t = "file" /\ cv2_imread(source.bytes).t = "img"
    THEN {pack_image(cv2_imread(source.bytes).img)}
    ELSE {pack_image(ImgA), pack_image(ImgB)}

\* MapIndexer.get_indices(source_path, map_data_array), up to the point
\* where _compute_and_cache opens the cache file for writing.
IndexGet ==
    /\ pc = "idle"
    /\ \E arr \in Arrays :
         LET current_hash == compute_file_hash(source)
             cached_data == load_from_cache(index_file, current_hash)
         IN  IF cached_data.t = "some"
             THEN /\ res' = [t |-> "index",
                             unique_ids |-> cached_data.unique_ids,
                             dense_map |-> cached_data.dense_map,
                             arr |-> arr, hit |-> TRUE,
                             work |-> [unique |-> 0, writes |-> 0]]
                  /\ prev' = IF res.t = "index" THEN res ELSE None
                  /\ UNCHANGED <<index_file, pc, job>>
             ELSE /\ job' = [unique_ids |-> np_unique(arr),
                             dense_map |-> np_unique_inverse(arr),
                             hash |-> current_hash, arr |-> arr,
                             before |-> Disk]
                  /\ index_file' = Trunc
                  /\ pc' = "save_index"
                  /\ UNCHANGED <<res, prev>>
    /\ UNCHANGED <<source, map_file, meta_file>>

\* np.savez_compressed completes; _compute_and_cache returns.
IndexSave ==
    /\ pc = "save_index"
    /\ index_file' = [t |-> "npz",
                      dict |-> [unique_ids |-> job.unique_ids,
                                dense_map |-> job.dense_map,
                                hash |-> job.hash]]
    /\ pc' = "idle"
    /\ job' = None
    /\ res' = [t |-> "index", unique_ids |-> job.unique_ids,
               dense_map |-> job.dense_map, arr |-> job.arr,
               hit |-> FALSE, work |-> [unique |-> 1, writes |-> 1]]
    /\ prev' = IF res.t = "index" THEN res ELSE None
    /\ UNCHANGED <<source, map_file, meta_file>>

\* --- Environment -------------------------------------------------------

\* What the persistence step under way will have put on disk when it ends.
Intended ==
    IF pc = "save_index"
    THEN <<map_file, meta_file,
           [t |-> "npz", dict |-> [unique_ids |-> job.unique_ids,
                                   dense_map |-> job.dense_map,
                                   hash |-> job.hash]]>>
    ELSE <<[t |-> "npy", data |-> job.packed],
           [t |-> "npy",
            dict |-> [mtime |-> job.mtime, bounds |-> job.bounds]],
           index_file>>

\* The process dies while a rebuild is persisting its result.
Crash ==
    /\ pc # "idle"
    /\ pc' = "idle"
    /\ job' = None
    /\ res' = [t |-> "crash", before |-> job.before, after |-> Intended]
    /\ prev' = None
    /\ UNCHANGED <<source, map_file, meta_file, index_file>>

\* The source image is created, replaced, copied over or touched: any
\* bytes with any modification time.
EditSource ==
    /\ pc = "idle"
    /\ \E b \in Contents, m \in Mtimes :
          source' = [t |-> "file", bytes |-> b, mtime |-> m]
    /\ res' = None
    /\ prev' = None
    /\ UNCHANGED <<map_file, meta_file, index_file, pc, job>>

DeleteSource ==
    /\ pc = "idle"
    /\ source.t = "file"
    /\ source' = [t |-> "missing"]
    /\ res' = None
    /\ prev' = None
    /\ UNCHANGED <<map_file, meta_file, index_file, pc, job>>

\* A cache file is deleted, cut short, or loses one of its keys.
Damaged(f) ==
    {NoFile, Trunc}
    \cup (IF f.t \in {"npy", "npz"} /\ "dict" \in DOMAIN f
          THEN {[f EXCEPT !.dict = DropKey(f.dict, k)] : k \in DOMAIN f.dict}
          ELSE {})

DamageCache ==
    /\ pc = "idle"
    /\ \/ /\ map_file.t # "none"
          /\ map_file' \in {NoFile, Trunc}
          /\ UNCHANGED <<meta_file, index_file>>
       \/ /\ meta_file.t # "none"
          /\ meta_file' \in Damaged(meta_file)
          /\ UNCHANGED <<map_file, index_file>>
       \/ /\ index_file.t # "none"
          /\ index_file' \in Damaged(index_file)
          /\ UNCHANGED <<map_file, meta_file>>
    /\ res' = None
    /\ prev' = None
    /\ UNCHANGED <<source, pc, job>>

(***************************************************************************)
(* SpecRenderer: MapRenderer.  The object is built over a raster           *)
(* (map_data.packed_map, here a flat array of pixels) and an empty index   *)
(* cache, so that get_indices computes the arrays; then the political      *)
(* layer and the highlight are updated in any order.                       *)
(***************************************************************************)
\* Side of the LUT texture.  The program's 4096 (16,777,216 cells) is scaled
\* down to 2 (4 cells) so that a raster can hold more ids than the LUT.
lut_dim == 2
LutCells == 0 .. (lut_dim * lut_dim - 1)

\* Pixels of the renderer's raster and the ids they may hold.
RPix == 5
IdUniverse == {0, 3, 5, 7, 9}
RendererRasters == [0 .. (RPix - 1) -> IdUniverse]

\* Inputs of update_political_layer and set_highlight: the background id
\* and three region ids, each of them unknown to the rasters that do not
\* hold it; a tag that may have a colour and a tag that has none.
MaxSel == 2
InputIds == {0, 3, 5, 9}
Tags == {"RED", "BLU"}
Ownerships == UNION {[S -> Tags] : S \in SUBSET InputIds}
ColorMaps == {[t \in {"RED"} |-> <<200, 0, 0>>], [t \in {} |-> <<0, 0, 0>>]}
IdLists == UNION {[1 .. n -> InputIds] : n \in 0 .. MaxSel}

RendererInit ==
    renderer \in {[state |-> "new", packed_map |-> a] : a \in RendererRasters}

\* {real_id: i for i, real_id in enumerate(unique_ids)}: of two equal keys
\* the later one stays.
enumerate_dict(unique_ids) ==
    [r \in SeqRange(unique_ids) |->
        SetMax({i \in DOMAIN unique_ids : unique_ids[i] = r})]

\* MapRenderer.__init__: the selection state, the blank LUT, and
\* _init_resources with MapIndexer.get_indices missing the cache.
InitResources ==
    /\ renderer.state = "new"
    /\ LET unique_ids == np_unique(renderer.packed_map)
       IN  renderer' =
              [state |-> "ready",
               ids_in_raster |->
                   {renderer.packed_map[p] : p \in DOMAIN renderer.packed_map},
               dense_to_real |-> unique_ids,
               real_to_dense |-> enumerate_dict(unique_ids),
               single_select_dense_id |-> -1,
               multi_select_dense_ids |-> {},
               prev_multi_select_dense_ids |-> {},
               lut_data |-> [d \in LutCells |-> <<0, 0, 0, 0>>],
               cached_ownership |-> <<>>,
               cached_colors |-> <<>>]

\* _rebuild_lut_array: the LUT that the cached ownership and colours and
\* the multi-selection give.
rebuild_lut_array_paint0(r2d, ownership, colors, multi) ==
    [d \in LutCells |->
        IF \E real_id \in DOMAIN ownership :
               real_id \in DOMAIN r2d /\ r2d[real_id] = d
        THEN LET real_id == CHOOSE x \in DOMAIN ownership :
                                x \in DOMAIN r2d /\ r2d[x] = d
                 tag == ownership[real_id]
                 color == IF tag \in DOMAIN colors THEN colors[tag]
                          ELSE <<100, 100, 100>>
                 alpha == IF d \in multi THEN 255 ELSE 200
             IN  <<color[1], color[2], color[3], alpha>>
        ELSE <<0, 0, 0, 0>>]

rebuild_lut_array_alpha200(r2d, ownership, colors, multi) ==
    [d \in LutCells |->
        IF d # 0 /\ \E real_id \in DOMAIN ownership :
                        real_id \in DOMAIN r2d /\ r2d[real_id] = d
        THEN LET real_id == CHOOSE x \in DOMAIN ownership :
                                x \in DOMAIN r2d /\ r2d[x] = d
                 tag == ownership[real_id]
                 color == IF tag \in DOMAIN colors THEN colors[tag]
                          ELSE <<100, 100, 100>>
             IN  <<color[1], color[2], color[3], 200>>
        ELSE <<0, 0, 0, 0>>]

rebuild_lut_array(r2d, ownership, colors, multi) ==
    [d \in LutCells |->
        IF d # 0 /\ \E real_id \in DOMAIN ownership :
                        real_id \in DOMAIN r2d /\ r2d[real_id] = d
        THEN LET real_id == CHOOSE x \in DOMAIN ownership :
                                x \in DOMAIN r2d /\ r2d[x] = d
                 tag == ownership[real_id]
                 color == IF tag \in DOMAIN colors THEN colors[tag]
                          ELSE <<100, 100, 100>>
                 alpha == IF d \in multi THEN 255 ELSE 200
             IN  <<color[1], color[2], color[3], alpha>>
        ELSE <<0, 0, 0, 0>>]

update_political_layer ==
    /\ renderer.state = "ready"
    /\ \E region_ownership \in Ownerships, country_colors \in ColorMaps :
          renderer' =
              [renderer EXCEPT
                  !.cached_ownership = region_ownership,
                  !.cached_colors = country_colors,
                  !.lut_data = rebuild_lut_array(
                                   renderer.real_to_dense, region_ownership,
                                   country_colors,
                                   renderer.multi_select_dense_ids)]

\* _update_selection_texture: the LUT after the old selection was reverted
\* and the new one raised.
update_selection_texture_nocheck(lut, prev_multi, multi) ==
    LET reverted ==
            [d \in DOMAIN lut |->
                IF d \in prev_multi /\ d # 0
                THEN <<lut[d][1], lut[d][2], lut[d][3], 200>>
                ELSE lut[d]]
    IN  [d \in DOMAIN lut |->
            IF d \in multi /\ d # 0
            THEN <<reverted[d][1], reverted[d][2], reverted[d][3], 255>>
            ELSE reverted[d]]

update_selection_texture_norevert(lut, prev_multi, multi) ==
    [d \in DOMAIN lut |->
        IF d \in multi /\ d # 0 /\ lut[d][4] > 0
        THEN <<lut[d][1], lut[d][2], lut[d][3], 255>>
        ELSE lut[d]]

update_selection_texture(lut, prev_multi, multi) ==
    LET reverted ==
            [d \in DOMAIN lut |->
                IF d \in prev_multi /\ d # 0 /\ lut[d][4] > 0
                THEN <<lut[d][1], lut[d][2], lut[d][3], 200>>
                ELSE lut[d]]
    IN  [d \in DOMAIN lut |->
            IF d \in multi /\ d # 0 /\ reverted[d][4] > 0
            THEN <<reverted[d][1], reverted[d][2], reverted[d][3], 255>>
            ELSE reverted[d]]

\* The cells of the LUT that _update_selection_texture assigns: the painted
\* cells of the old selection in its first loop, those of the new selection
\* in its second.
selection_writes(lut, prev_multi, multi) ==
    LET first == {idx \in prev_multi :
                     idx \in DOMAIN lut /\ idx # 0 /\ lut[idx][4] > 0}
        second == {idx \in multi :
                      idx \in DOMAIN lut /\ idx # 0 /\ lut[idx][4] > 0}
    IN  first \cup second

\* The renderer with the multi-selection replaced and the LUT updated.
with_multi_select(r, new_set) ==
    [r EXCEPT
        !.multi_select_dense_ids = new_set,
        !.prev_multi_select_dense_ids = new_set,
        !.lut_data = update_selection_texture(
                         r.lut_data, r.prev_multi_select_dense_ids, new_set)]

clear_highlight_of(r) ==
    LET r1 == [r EXCEPT !.single_select_dense_id = -1]
    IN  IF r.multi_select_dense_ids # {}
        THEN with_multi_select(r1, {})
        ELSE r1

\* The dense ids of the known members of a list of real ids, in order.
RECURSIVE valid_dense_ids_of(_, _)
valid_dense_ids_of(r2d, ids) ==
    IF ids = <<>> THEN <<>>
    ELSE (IF Head(ids) \in DOMAIN r2d THEN <<r2d[Head(ids)]>> ELSE <<>>)
         \o valid_dense_ids_of(r2d, Tail(ids))

set_highlight_of_keepsingle(r, real_region_ids) ==
    IF real_region_ids = <<>> THEN clear_highlight_of(r)
    ELSE LET valid_dense_ids ==
                 valid_dense_ids_of(r.real_to_dense, real_region_ids)
         IN  IF valid_dense_ids = <<>> THEN r
             ELSE IF Len(valid_dense_ids) = 1
             THEN LET r1 == [r EXCEPT
                                !.single_select_dense_id = valid_dense_ids[1]]
                  IN  IF r.multi_select_dense_ids # {}
                      THEN with_multi_select(r1, {})
                      ELSE r1
             ELSE LET new_set == SeqRange(valid_dense_ids)
                  IN  IF new_set # r.multi_select_dense_ids
                      THEN with_multi_select(r, new_set)
                      ELSE r

set_highlight_of_lutonly(r, real_region_ids) ==
    IF real_region_ids = <<>> THEN clear_highlight_of(r)
    ELSE LET valid_dense_ids ==
                 valid_dense_ids_of(r.real_to_dense, real_region_ids)
         IN  IF valid_dense_ids = <<>> THEN r
             ELSE LET r1 == [r EXCEPT !.single_select_dense_id = -1]
                      new_set == SeqRange(valid_dense_ids)
                  IN  IF new_set # r.multi_select_dense_ids
                      THEN with_multi_select(r1, new_set)
                      ELSE r1

set_highlight_of(r, real_region_ids) ==
    IF real_region_ids = <<>> THEN clear_highlight_of(r)
    ELSE LET valid_dense_ids ==
                 valid_dense_ids_of(r.real_to_dense, real_region_ids)
         IN  IF valid_dense_ids = <<>> THEN r
             ELSE IF Len(valid_dense_ids) = 1
             THEN LET r1 == [r EXCEPT
                                !.single_select_dense_id = valid_dense_ids[1]]
                  IN  IF r.multi_select_dense_ids # {}
                      THEN with_multi_select(r1, {})
                      ELSE r1
             ELSE LET r1 == [r EXCEPT !.single_select_dense_id = -1]
                      new_set == SeqRange(valid_dense_ids)
                  IN  IF new_set # r.multi_select_dense_ids
                      THEN with_multi_select(r1, new_set)
                      ELSE r1

\* The LUT cells a set_highlight call assigns.
highlight_writes(r, real_region_ids) ==
    LET valid_dense_ids ==
            valid_dense_ids_of(r.real_to_dense, real_region_ids)
        new_set == SeqRange(valid_dense_ids)
    IN  IF real_region_ids = <<>> \/ Len(valid_dense_ids) = 1
        THEN IF r.multi_select_dense_ids # {}
             THEN selection_writes(r.lut_data,
                                   r.prev_multi_select_dense_ids, {})
             ELSE {}
        ELSE IF valid_dense_ids # <<>> /\ new_set # r.multi_select_dense_ids
        THEN selection_writes(r.lut_data,
                              r.prev_multi_select_dense_ids, new_set)
        ELSE {}

set_highlight ==
    /\ renderer.state = "ready"
    /\ \E real_region_ids \in IdLists :
          renderer' = set_highlight_of(renderer, real_region_ids)

clear_highlight ==
    /\ renderer.state = "ready"
    /\ renderer' = clear_highlight_of(renderer)

(***************************************************************************)
(* SpecOverlay: RegionAtlas.render_country_overlay on a baked atlas.  The  *)
(* rasters are squares large enough for a padded box to end before the     *)
(* raster does; they hold at most two region pixels.  The atlas does not   *)
(* change after construction, so what lru_cache returns for a key is what  *)
(* the body computes for it.  The overlay is described by its shape and    *)
(* the mask its contours are traced from.                                  *)
(***************************************************************************)
OvDim == 4
OvPix == (0 .. (OvDim - 1)) \X (0 .. (OvDim - 1))

paint_two(p, c1, q, c2) ==
    [x \in OvPix |-> IF x = q THEN c2 ELSE IF x = p THEN c1 ELSE <<0, 0, 0>>]

OvImages ==
    {paint_two(p, c1, q, c2) : p \in OvPix, q \in OvPix,
                               c1 \in Palette, c2 \in Palette}

\* Arguments of render_country_overlay: tuples over the background id, the
\* two ids of the palette and an id no raster holds; line thicknesses.
MaxTuple == 2
OverlayIds == {0, 5, 256, 7}
OverlayTuples == UNION {[1 .. n -> OverlayIds] : n \in 0 .. MaxTuple}
Thicknesses == {1, 2}

InitOverlayAtlas == atlas \in {[state |-> "image", img |-> i] : i \in OvImages}

Max2(a, b) == IF a >= b THEN a ELSE b
Min2(a, b) == IF a <= b THEN a ELSE b

NoOverlay ==
    [t |-> "return", overlay |-> None, x_offset |-> 0, y_offset |-> 0]

render_country_overlay_nofound(a, region_ids, thickness) ==
    IF region_ids = <<>> THEN NoOverlay
    ELSE
    LET found == {i \in DOMAIN region_ids :
                     region_ids[i] \in DOMAIN a.region_bounds}
    IN  IF found = {} THEN [t |-> "raise", exc |-> "ValueError"]
        ELSE
        LET sys == {a.region_bounds[region_ids[i]][1] : i \in found}
            lys == {a.region_bounds[region_ids[i]][2] : i \in found}
            sxs == {a.region_bounds[region_ids[i]][3] : i \in found}
            lxs == {a.region_bounds[region_ids[i]][4] : i \in found}
            pad == thickness + 2
            roi_y_min == Max2(0, SetMin(sys) - pad)
            roi_y_max == Min2(a.height, SetMax(lys) + pad)
            roi_x_min == Max2(0, SetMin(sxs) - pad)
            roi_x_max == Min2(a.width, SetMax(lxs) + pad)
            roi == {p \in DOMAIN a.packed_map :
                       /\ roi_y_min <= p[1] /\ p[1] < roi_y_max
                       /\ roi_x_min <= p[2] /\ p[2] < roi_x_max}
            mask == IF Len(region_ids) = 1
                    THEN {p \in roi : a.packed_map[p] = region_ids[1]}
                    ELSE {p \in roi : a.packed_map[p] \in SeqRange(region_ids)}
        IN  IF mask = {} THEN NoOverlay
            ELSE [t |-> "return",
                  overlay |-> [h |-> Max2(0, roi_y_max - roi_y_min),
                               w |-> Max2(0, roi_x_max - roi_x_min),
                               mask |-> mask],
                  x_offset |-> roi_x_min, y_offset |-> roi_y_min]

render_country_overlay(a, region_ids, thickness) ==
    IF region_ids = <<>> THEN NoOverlay
    ELSE
    LET found == {i \in DOMAIN region_ids :
                     region_ids[i] \in DOMAIN a.region_bounds}
    IN  IF found = {} THEN NoOverlay
        ELSE
        LET sys == {a.region_bounds[region_ids[i]][1] : i \in found}
            lys == {a.region_bounds[region_ids[i]][2] : i \in found}
            sxs == {a.region_bounds[region_ids[i]][3] : i \in found}
            lxs == {a.region_bounds[region_ids[i]][4] : i \in found}
            pad == thickness + 2
            roi_y_min == Max2(0, SetMin(sys) - pad)
            roi_y_max == Min2(a.height, SetMax(lys) + pad)
            roi_x_min == Max2(0, SetMin(sxs) - pad)
            roi_x_max == Min2(a.width, SetMax(lxs) + pad)
            roi == {p \in DOMAIN a.packed_map :
                       /\ roi_y_min <= p[1] /\ p[1] < roi_y_max
                       /\ roi_x_min <= p[2] /\ p[2] < roi_x_max}
            mask == IF Len(region_ids) = 1
                    THEN {p \in roi : a.packed_map[p] = region_ids[1]}
                    ELSE {p \in roi : a.packed_map[p] \in SeqRange(region_ids)}
        IN  IF mask = {} THEN NoOverlay
            ELSE [t |-> "return",
                  overlay |-> [h |-> Max2(0, roi_y_max - roi_y_min),
                               w |-> Max2(0, roi_x_max - roi_x_min),
                               mask |-> mask],
                  x_offset |-> roi_x_min, y_offset |-> roi_y_min]

RenderCountryOverlay ==
    /\ atlas.state = "ready"
    /\ \E region_ids \in OverlayTuples, thickness \in Thicknesses :
          query' = [op |-> "render_country_overlay",
                    region_ids |-> region_ids, thickness |-> thickness,
                    res |-> render_country_overlay(atlas, region_ids,
                                                   thickness)]
    /\ UNCHANGED atlas

(***************************************************************************)
(* SpecMemo: render_country_overlay as callers reach it, through           *)
(* functools.lru_cache.  The key of a call is its arguments as passed.     *)
(* memo lists the entries from the least to the most recently used.        *)
(***************************************************************************)
\* lru_cache(maxsize=128), scaled down to 2 so that the memo fills up.
maxsize == 2
MaxCalls == 4

\* Rasters of the memoised atlas: up to two region pixels at fixed places.
MemoImages ==
    {paint_two(<<0, 0>>, c1, <<1, 1>>, c2) : c1 \in Palette, c2 \in Palette}

InitMemoAtlas == atlas \in {[state |-> "image", img |-> i] : i \in MemoImages}

\* Positional arguments of the calls: the same ids in both orders, an id
\* once and twice, and a call that also passes colour and thickness.
MemoArgs ==
    {<< <<5>> >>, << <<5, 5>> >>, << <<5, 256>> >>, << <<256, 5>> >>,
     << <<5>>, <<255, 255, 255>>, 1 >>}

border_color_of(args) == IF Len(args) >= 2 THEN args[2] ELSE <<255, 255, 255>>
thickness_of(args) == IF Len(args) >= 3 THEN args[3] ELSE 3

\* The wrapped function applied to the arguments of a call.
wrapped_call(a, args) == render_country_overlay(a, args[1], thickness_of(args))

memo_keys(memo) == {memo[i].key : i \in DOMAIN memo}

\* A hit moves the entry to the most recently used end.
lru_touch_fifo(memo, i) == memo

lru_touch(memo, i) ==
    SubSeq(memo, 1, i - 1) \o SubSeq(memo, i + 1, Len(memo)) \o <<memo[i]>>

\* One call through lru_cache: a hit returns the stored result; a miss
\* calls the function, stores the result and, if the memo is full, drops
\* the least recently used entry first.
lru_cache_call_nostore(memo, args, a) ==
    IF args \in memo_keys(memo)
    THEN LET i == CHOOSE j \in DOMAIN memo : memo[j].key = args
         IN  [hit |-> TRUE, res |-> memo[i].result,
              memo |-> lru_touch(memo, i), evicted |-> {}]
    ELSE [hit |-> FALSE, res |-> wrapped_call(a, args),
          memo |-> memo, evicted |-> {}]

lru_cache_call(memo, args, a) ==
    IF args \in memo_keys(memo)
    THEN LET i == CHOOSE j \in DOMAIN memo : memo[j].key = args
         IN  [hit |-> TRUE, res |-> memo[i].result,
              memo |-> lru_touch(memo, i), evicted |-> {}]
    ELSE LET result == wrapped_call(a, args)
             entry == [key |-> args, result |-> result]
         IN  IF Len(memo) >= maxsize
             THEN [hit |-> FALSE, res |-> result,
                   memo |-> Append(Tail(memo), entry),
                   evicted |-> {memo[1].key}]
             ELSE [hit |-> FALSE, res |-> result,
                   memo |-> Append(memo, entry), evicted |-> {}]

CachedRenderCountryOverlay ==
    /\ atlas.state = "ready"
    /\ Len(atlas.calls) < MaxCalls
    /\ \E args \in MemoArgs :
          LET r == lru_cache_call(atlas.memo, args, atlas)
          IN  /\ atlas' = [atlas EXCEPT !.memo = r.memo,
                                        !.calls = Append(@, args)]
              /\ query' = [op |-> "cached_render_country_overlay",
                           args |-> args, hit |-> r.hit,
                           computed |-> ~r.hit, res |-> r.res,
                           evicted |-> r.evicted]

(***************************************************************************)
(* SpecWorldPos: MapRenderer.get_region_id_at_world_pos over the raster of *)
(* a baked atlas.  World coordinates are floats; the model takes them in   *)
(* halves, wx2 = 2 * world_x, so that whole and fractional positions both  *)
(* occur.                                                                  *)
(***************************************************************************)
\* int(n2 / 2) as Python converts a float: towards zero.
py_int_of_halves(n2) ==
    IF n2 >= 0 THEN n2 \div 2 ELSE -((-n2) \div 2)

\* map_data.get_region_id(x, y): the lookup of the raster at column x, row
\* y in the raster's own top-left origin.
map_data_get_region_id(a, x, y) == get_region_at(a, x, y)

get_region_id_at_world_pos(a, wx2, wy2) ==
    LET img_y == py_int_of_halves(2 * a.height - wy2)
    IN  IF ~(0 <= wx2 /\ wx2 < 2 * a.width /\ 0 <= img_y /\ img_y < a.height)
        THEN [t |-> "return", v |-> 0]
        ELSE map_data_get_region_id(a, py_int_of_halves(wx2), img_y)

\* World positions, in halves: from one unit left of and below the map to
\* one unit right of and above it.
WorldXs2 == -2 .. (2 * ImgW + 2)
WorldYs2 == -2 .. (2 * ImgH + 2)

GetRegionIdAtWorldPos ==
    /\ atlas.state = "ready"
    /\ \E wx2 \in WorldXs2, wy2 \in WorldYs2 :
          query' = [op |-> "get_region_id_at_world_pos",
                    wx2 |-> wx2, wy2 |-> wy2,
                    res |-> get_region_id_at_world_pos(atlas, wx2, wy2)]
    /\ UNCHANGED atlas

(***************************************************************************)
(* LoadingView: a worker thread runs task.run() while the main thread      *)
(* calls on_update once per frame.                                         *)
(***************************************************************************)
MaxNotify == 3

\* What a task's run() hands back: a context object, or an Exception.
Contexts == {[t |-> "obj", v |-> "ctx1"], [t |-> "obj", v |-> "ctx2"]}
Exceptions == {[t |-> "exc", name |-> "FileNotFoundError"]}
Views == {[t |-> "view", name |-> "EditorView"]}

\* The tasks of the repository and the stages of their run(), by the
\* progress (in tenths) and the status text each stage reports.
Tasks == {"EditorLoadingTask", "NewGameTask"}

RunStages(task) ==
    IF task = "EditorLoadingTask" THEN <<1, 3, 8, 10>> ELSE <<1, 4, 7, 10>>

StatusTexts(task) ==
    IF task = "EditorLoadingTask"
    THEN <<"Locating map assets...", "Processing Region Atlas (CV2)...",
           "Connecting to Session...", "Finalizing...">>
    ELSE <<"Initializing...", "Calculating strategic positions...",
           "Pre-loading map assets...", "Ready.">>

\* The stages of run() whose file operations can raise.
RaisingStages(task) ==
    IF task = "EditorLoadingTask" THEN {1, 2} ELSE {3}

\* LoadingView.__init__
LoadingInit ==
    loading \in {[state |-> "view",
                  task |-> k,
                  on_failure |-> f,
                  shown |-> "none",
                  worker |-> "unstarted",
                  stage |-> 0,
                  run |-> [t |-> "not_called"],
                  progress |-> 0,
                  status_text |-> "Preparing...",
                  is_finished |-> FALSE,
                  result |-> None,
                  error |-> None,
                  _finalizing_frame_rendered |-> FALSE,
                  on_success_calls |-> <<>>,
                  on_failure_calls |-> <<>>] : k \in Tasks, f \in BOOLEAN}

\* LoadingView.on_show_view: the window shows the view, the thread starts.
on_show_view ==
    /\ loading.shown = "none"
    /\ loading' = [loading EXCEPT !.shown = "loading", !.worker = "run",
                                  !.run = [t |-> "running"]]

\* task.run() reaches its next stage.
RunStage ==
    /\ loading.worker = "run"
    /\ loading.run.t = "running"
    /\ loading.stage < Len(RunStages(loading.task))
    /\ loading' = [loading EXCEPT
                      !.stage = @ + 1,
                      !.progress = RunStages(loading.task)[loading.stage + 1],
                      !.status_text =
                          StatusTexts(loading.task)[loading.stage + 1]]

\* task.run() returns its context.
RunReturn ==
    /\ loading.worker = "run"
    /\ loading.run.t = "running"
    /\ loading.stage = Len(RunStages(loading.task))
    /\ \E v \in Contexts :
         loading' = [loading EXCEPT !.run = [t |-> "returned", value |-> v]]

\* task.run() raises (a path that does not resolve, an image that does
\* not load).
RunRaise ==
    /\ loading.worker = "run"
    /\ loading.run.t = "running"
    /\ loading.stage \in RaisingStages(loading.task)
    /\ \E e \in Exceptions :
         loading' = [loading EXCEPT !.run = [t |-> "raised", exc |-> e]]

\* _worker: self.result = <returned value>, or the except clause.
WorkerAssign ==
    /\ loading.worker = "run"
    /\ loading.run.t \in {"returned", "raised"}
    /\ loading' = IF loading.run.t = "returned"
                  THEN [loading EXCEPT !.result = loading.run.value,
                                       !.worker = "finally"]
                  ELSE [loading EXCEPT !.error = loading.run.exc,
                                       !.worker = "finally"]

\* _worker: the finally clause.
WorkerFinally ==
    /\ loading.worker = "finally"
    /\ loading' = [loading EXCEPT !.is_finished = TRUE, !.worker = "done"]

on_update_of_nofinishcheck(lv, next_view) ==
    IF lv.error # None
    THEN IF lv.on_failure
         THEN [lv EXCEPT !.on_failure_calls = Append(@, lv.error)]
         ELSE [lv EXCEPT !.shown = "crashed"]
    ELSE IF ~lv._finalizing_frame_rendered
    THEN [lv EXCEPT !.status_text = "Finalizing Graphics...",
                    !.progress = 10,
                    !._finalizing_frame_rendered = TRUE]
    ELSE [lv EXCEPT !.on_success_calls =
                        Append(@, [arg |-> lv.result, run |-> lv.run]),
                    !.shown = IF next_view # None THEN next_view.name ELSE @]

on_update_of_noerrorcheck(lv, next_view) ==
    IF ~lv.is_finished THEN lv
    ELSE IF ~lv._finalizing_frame_rendered
    THEN [lv EXCEPT !.status_text = "Finalizing Graphics...",
                    !.progress = 10,
                    !._finalizing_frame_rendered = TRUE]
    ELSE [lv EXCEPT !.on_success_calls =
                        Append(@, [arg |-> lv.result, run |-> lv.run]),
                    !.shown = IF next_view # None THEN next_view.name ELSE @]

\* LoadingView.on_update; next_view is what on_success returns if called.
\* Each call of on_success is logged with its argument and with where
\* task.run() stood at that moment.
on_update_of(lv, next_view) ==
    IF ~lv.is_finished THEN lv
    ELSE IF lv.error # None
    THEN IF lv.on_failure
         THEN [lv EXCEPT !.on_failure_calls = Append(@, lv.error)]
         ELSE [lv EXCEPT !.shown = "crashed"]
    ELSE IF ~lv._finalizing_frame_rendered
    THEN [lv EXCEPT !.status_text = "Finalizing Graphics...",
                    !.progress = 10,
                    !._finalizing_frame_rendered = TRUE]
    ELSE [lv EXCEPT !.on_success_calls =
                        Append(@, [arg |-> lv.result, run |-> lv.run]),
                    !.shown = IF next_view # None THEN next_view.name ELSE @]

\* A frame of the main loop while the loading view is the shown view.
on_update ==
    /\ loading.state = "view"
    /\ loading.shown = "loading"
    /\ Len(loading.on_success_calls) < MaxNotify
    /\ Len(loading.on_failure_calls) < MaxNotify
    /\ \E next_view \in {None} \cup Views :
         loading' = on_update_of(loading, next_view)

(***************************************************************************)
(* GameSession: receive_action buffers actions, tick hands the buffer to   *)
(* Engine.step and clears it. Actions are numbered in submission order.    *)
(* A step of tick is one operation on the list (an iterator step, clear),  *)
(* the grain at which another thread's append can fall in between.         *)
(***************************************************************************)
MaxActions == 3
MaxTicks == 3

\* GameSession.__init__
SessionInit ==
    session = [state |-> "session",
               action_queue |-> <<>>,
               pc |-> "idle",       \* where the running tick stands
               it |-> 0,            \* Engine.step: the list iterator's index
               tick |-> 0,          \* state.globals["tick"]
               submitted |-> 0,     \* actions handed to receive_action
               applied |-> <<>>]    \* actions handed to _apply_action

\* GameSession.receive_action(action), from any thread.
receive_action ==
    /\ session.state = "session"
    /\ session.submitted < MaxActions
    /\ session' = [session EXCEPT
                      !.submitted = @ + 1,
                      !.action_queue = Append(@, session.submitted + 1)]

\* GameSession.tick(delta_time): the early return, or the call of
\* Engine.step with the queue itself as its list of actions.
tick_enter ==
    /\ session.state = "session"
    /\ session.pc = "idle"
    /\ session.tick < MaxTicks
    /\ \E delta_time \in {0, 1} :
         IF session.action_queue = <<>> /\ delta_time <= 0
         THEN UNCHANGED session
         ELSE session' = [session EXCEPT !.pc = "loop", !.it = 0]

\* Engine.step: one turn of "for action in actions".
step_apply ==
    /\ session.pc = "loop"
    /\ session.it < Len(session.action_queue)
    /\ session' = [session EXCEPT
                      !.it = @ + 1,
                      !.applied =
                          Append(@, session.action_queue[session.it + 1])]

\* Engine.step: the iterator is exhausted and the loop ends.
step_loop_end ==
    /\ session.pc = "loop"
    /\ session.it >= Len(session.action_queue)
    /\ session' = [session EXCEPT !.pc = "meta"]

\* Engine.step: state.globals["tick"] += 1, and step returns.
step_meta ==
    /\ session.pc = "meta"
    /\ session' = [session EXCEPT !.tick = @ + 1, !.pc = "clear"]

\* GameSession.tick: self.action_queue.clear()
tick_clear ==
    /\ session.pc = "clear"
    /\ session' = [session EXCEPT !.action_queue = <<>>, !.pc = "idle"]

(***************************************************************************)
(* SaveManager.save_game on one save name: <save_root>/<name> is the       *)
(* target directory, <save_root>/<name>_tmp the temporary one. A save      *)
(* directory holds the table files and meta.json; it is complete when it   *)
(* holds both. The game state saved by the n-th call is numbered n.        *)
(***************************************************************************)
MaxSaves == 3

NoDir == [t |-> "none"]
SaveFiles == {"tables", "meta.json"}
Dir(v, files) == [t |-> "dir", v |-> v, files |-> files]
IsComplete(d) == d.t = "dir" /\ d.files = SaveFiles

\* shutil.rmtree, one directory entry at a time: every file is unlinked,
\* then the directory itself is removed.
RmtreeSteps(d) ==
    IF d.files = {} THEN {NoDir}
    ELSE {[d EXCEPT !.files = @ \ {f}] : f \in d.files}

\* SaveManager.__init__: the save root exists; it holds no save of the
\* name yet, or a complete one written by an earlier session (state 0).
SaveInit ==
    \E d \in {NoDir, Dir(0, SaveFiles)} :
        saves = [state |-> "disk",
                 target |-> d,
                 temp |-> NoDir,
                 pc |-> "idle",
                 n |-> 0,                 \* save_game calls made
                 ret |-> None,            \* what the last call returned
                 last |-> d]              \* the last save completed on target

\* save_game(state, save_name) with a name that sanitizes to nothing:
\* returns False; with a usable name: enters the try block.
save_game ==
    /\ saves.state = "disk"
    /\ saves.pc = "idle"
    /\ saves.n < MaxSaves
    /\ \E save_name \in {"", "slot"} :
         IF save_name = ""
         THEN saves' = [saves EXCEPT !.ret = [t |-> "bool", v |-> FALSE]]
         ELSE saves' = [saves EXCEPT !.pc = "clean", !.n = @ + 1,
                                     !.ret = None]

\* 1. Clean Workspace: if temp_path.exists(): shutil.rmtree(temp_path)
save_clean ==
    /\ saves.pc = "clean"
    /\ saves' = [saves EXCEPT
                    !.pc = IF saves.temp.t = "dir" THEN "rm_temp"
                           ELSE "mkdir"]

save_rm_temp ==
    /\ saves.pc = "rm_temp"
    /\ \E d \in RmtreeSteps(saves.temp) :
         saves' = [saves EXCEPT !.temp = d,
                                !.pc = IF d = NoDir THEN "mkdir" ELSE @]

\* temp_path.mkdir()
save_mkdir ==
    /\ saves.pc = "mkdir"
    /\ saves' = [saves EXCEPT !.temp = Dir(saves.n, {}),
                              !.pc = "write_tables"]

\* 2. the parquet files of the state's tables
save_write_tables ==
    /\ saves.pc = "write_tables"
    /\ saves' = [saves EXCEPT !.temp.files = @ \cup {"tables"},
                              !.pc = "write_meta"]

\* 3. Write Metadata
save_write_meta ==
    /\ saves.pc = "write_meta"
    /\ saves' = [saves EXCEPT !.temp.files = @ \cup {"meta.json"},
                              !.pc = "commit"]

\* 4. if target_path.exists(): shutil.rmtree(target_path)
save_commit ==
    /\ saves.pc = "commit"
    /\ saves' = [saves EXCEPT
                    !.pc = IF saves.target.t = "dir" THEN "rm_target"
                           ELSE "rename"]

save_rm_target ==
    /\ saves.pc = "rm_target"
    /\ \E d \in RmtreeSteps(saves.target) :
         saves' = [saves EXCEPT !.target = d,
                                !.pc = IF d = NoDir THEN "rename" ELSE @]

\* temp_path.rename(target_path); return True
save_rename ==
    /\ saves.pc = "rename"
    /\ saves' = [saves EXCEPT !.target = saves.temp,
                              !.temp = NoDir,
                              !.last = saves.temp,
                              !.pc = "idle",
                              !.ret = [t |-> "bool", v |-> TRUE]]

\* A file operation of the try block raises (disk full, permission
\* denied, a file held open): control passes to the except clause.
save_raise ==
    /\ saves.pc \in {"rm_temp", "mkdir", "write_tables", "write_meta",
                     "rm_target", "rename"}
    /\ saves' = [saves EXCEPT !.pc = "except"]

\* except Exception: if temp_path.exists(): shutil.rmtree(temp_path);
\* return False
save_except ==
    /\ saves.pc = "except"
    /\ saves' = [saves EXCEPT !.temp = NoDir,
                              !.pc = "idle",
                              !.ret = [t |-> "bool", v |-> FALSE]]

\* The process is killed (or the machine loses power) while save_game
\* runs; the directories stay as they are.
save_crash ==
    /\ saves.pc \notin {"idle"}
    /\ saves' = [saves EXCEPT !.pc = "idle", !.ret = [t |-> "crashed"]]

(***************************************************************************)
(* The specifications.                                                     *)
(***************************************************************************)
codecVars == <<codec>>
atlasVars == <<atlas, query>>
cacheVars == <<source, map_file, meta_file, index_file, pc, job, res, prev>>
rendererVars == <<renderer>>
loadingVars == <<loading>>
saveVars == <<saves>>
sessionVars == <<session>>
appVars == <<loadingVars, saveVars, sessionVars>>

CodecUnused == codec = NoCall
AtlasUnused == atlas = [state |-> "unused"] /\ query = NoCall
RendererUnused == renderer = [state |-> "unused"]
LoadingUnused == loading = [state |-> "unused"]
SaveUnused == saves = [state |-> "unused"]
SessionUnused == session = [state |-> "unused"]
AppUnused == LoadingUnused /\ SaveUnused /\ SessionUnused
CacheUnused ==
    /\ source = [t |-> "missing"]
    /\ map_file = NoFile /\ meta_file = NoFile /\ index_file = NoFile
    /\ pc = "idle" /\ job = None /\ res = None /\ prev = None

\* Spec: an empty cache directory and any source image, or none.
CacheInit ==
    /\ source \in {[t |-> "missing"]}
                  \cup {[t |-> "file", bytes |-> b, mtime |-> m] :
                            b \in Contents, m \in Mtimes}
    /\ map_file = NoFile /\ meta_file = NoFile /\ index_file = NoFile
    /\ pc = "idle" /\ job = None /\ res = None /\ prev = None

Init == CacheInit /\ CodecUnused /\ AtlasUnused /\ RendererUnused /\ AppUnused

Next ==
    \/ AtlasLoad /\ UNCHANGED <<codecVars, atlasVars, rendererVars, appVars>>
    \/ AtlasSaveMap /\ UNCHANGED <<codecVars, atlasVars, rendererVars, appVars>>
    \/ AtlasOpenMeta /\ UNCHANGED <<codecVars, atlasVars, rendererVars, appVars>>
    \/ AtlasSaveMeta /\ UNCHANGED <<codecVars, atlasVars, rendererVars, appVars>>
    \/ IndexGet /\ UNCHANGED <<codecVars, atlasVars, rendererVars, appVars>>
    \/ IndexSave /\ UNCHANGED <<codecVars, atlasVars, rendererVars, appVars>>
    \/ Crash /\ UNCHANGED <<codecVars, atlasVars, rendererVars, appVars>>
    \/ EditSource /\ UNCHANGED <<codecVars, atlasVars, rendererVars, appVars>>
    \/ DeleteSource /\ UNCHANGED <<codecVars, atlasVars, rendererVars, appVars>>
    \/ DamageCache /\ UNCHANGED <<codecVars, atlasVars, rendererVars, appVars>>

Spec == Init /\ [][Next]_vars

InitCodec ==
    CodecInit /\ AtlasUnused /\ CacheUnused /\ RendererUnused /\ AppUnused

NextCodec ==
    \/ PackThenUnpack /\ UNCHANGED <<atlasVars, cacheVars, rendererVars, appVars>>
    \/ UnpackThenPack /\ UNCHANGED <<atlasVars, cacheVars, rendererVars, appVars>>

SpecCodec == InitCodec /\ [][NextCodec]_vars

InitAtlas ==
    /\ AtlasInit /\ query = NoCall
    /\ CodecUnused /\ CacheUnused /\ RendererUnused /\ AppUnused

NextAtlas ==
    \/ Construct /\ UNCHANGED <<codecVars, cacheVars, rendererVars, appVars>>
    \/ GetRegionAt /\ UNCHANGED <<codecVars, cacheVars, rendererVars, appVars>>

SpecAtlas == InitAtlas /\ [][NextAtlas]_vars

InitRenderer ==
    RendererInit /\ CodecUnused /\ AtlasUnused /\ CacheUnused /\ AppUnused

NextRenderer ==
    \/ InitResources /\ UNCHANGED <<codecVars, atlasVars, cacheVars, appVars>>
    \/ update_political_layer /\ UNCHANGED <<codecVars, atlasVars, cacheVars, appVars>>
    \/ set_highlight /\ UNCHANGED <<codecVars, atlasVars, cacheVars, appVars>>
    \/ clear_highlight /\ UNCHANGED <<codecVars, atlasVars, cacheVars, appVars>>

SpecRenderer == InitRenderer /\ [][NextRenderer]_vars

InitOverlay ==
    /\ InitOverlayAtlas /\ query = NoCall
    /\ CodecUnused /\ CacheUnused /\ RendererUnused /\ AppUnused

NextOverlay ==
    \/ Construct /\ UNCHANGED <<codecVars, cacheVars, rendererVars, appVars>>
    \/ RenderCountryOverlay /\ UNCHANGED <<codecVars, cacheVars, rendererVars, appVars>>

SpecOverlay == InitOverlay /\ [][NextOverlay]_vars

InitMemo ==
    /\ InitMemoAtlas /\ query = NoCall
    /\ CodecUnused /\ CacheUnused /\ RendererUnused /\ AppUnused

NextMemo ==
    \/ Construct /\ UNCHANGED <<codecVars, cacheVars, rendererVars, appVars>>
    \/ CachedRenderCountryOverlay
           /\ UNCHANGED <<codecVars, cacheVars, rendererVars, appVars>>

SpecMemo == InitMemo /\ [][NextMemo]_vars

NextWorldPos ==
    \/ Construct /\ UNCHANGED <<codecVars, cacheVars, rendererVars, appVars>>
    \/ GetRegionIdAtWorldPos
           /\ UNCHANGED <<codecVars, cacheVars, rendererVars, appVars>>

SpecWorldPos == InitAtlas /\ [][NextWorldPos]_vars

InitLoading ==
    /\ LoadingInit /\ SaveUnused /\ SessionUnused
    /\ CodecUnused /\ AtlasUnused /\ CacheUnused /\ RendererUnused

baseVars == <<codecVars, atlasVars, cacheVars, rendererVars>>

NextLoading ==
    \/ on_show_view /\ UNCHANGED <<baseVars, saveVars, sessionVars>>
    \/ RunStage /\ UNCHANGED <<baseVars, saveVars, sessionVars>>
    \/ RunReturn /\ UNCHANGED <<baseVars, saveVars, sessionVars>>
    \/ RunRaise /\ UNCHANGED <<baseVars, saveVars, sessionVars>>
    \/ WorkerAssign /\ UNCHANGED <<baseVars, saveVars, sessionVars>>
    \/ WorkerFinally /\ UNCHANGED <<baseVars, saveVars, sessionVars>>
    \/ on_update /\ UNCHANGED <<baseVars, saveVars, sessionVars>>

SpecLoading == InitLoading /\ [][NextLoading]_vars

InitSession ==
    /\ SessionInit /\ LoadingUnused /\ SaveUnused
    /\ CodecUnused /\ AtlasUnused /\ CacheUnused /\ RendererUnused

NextSession ==
    \/ receive_action /\ UNCHANGED <<baseVars, loadingVars, saveVars>>
    \/ tick_enter /\ UNCHANGED <<baseVars, loadingVars, saveVars>>
    \/ step_apply /\ UNCHANGED <<baseVars, loadingVars, saveVars>>
    \/ step_loop_end /\ UNCHANGED <<baseVars, loadingVars, saveVars>>
    \/ step_meta /\ UNCHANGED <<baseVars, loadingVars, saveVars>>
    \/ tick_clear /\ UNCHANGED <<baseVars, loadingVars, saveVars>>

SpecSession == InitSession /\ [][NextSession]_vars

InitSave ==
    /\ SaveInit /\ LoadingUnused /\ SessionUnused
    /\ CodecUnused /\ AtlasUnused /\ CacheUnused /\ RendererUnused

NextSave ==
    \/ save_game /\ UNCHANGED <<baseVars, loadingVars, sessionVars>>
    \/ save_clean /\ UNCHANGED <<baseVars, loadingVars, sessionVars>>
    \/ save_rm_temp /\ UNCHANGED <<baseVars, loadingVars, sessionVars>>
    \/ save_mkdir /\ UNCHANGED <<baseVars, loadingVars, sessionVars>>
    \/ save_write_tables /\ UNCHANGED <<baseVars, loadingVars, sessionVars>>
    \/ save_write_meta /\ UNCHANGED <<baseVars, loadingVars, sessionVars>>
    \/ save_commit /\ UNCHANGED <<baseVars, loadingVars, sessionVars>>
    \/ save_rm_target /\ UNCHANGED <<baseVars, loadingVars, sessionVars>>
    \/ save_rename /\ UNCHANGED <<baseVars, loadingVars, sessionVars>>
    \/ save_raise /\ UNCHANGED <<baseVars, loadingVars, sessionVars>>
    \/ save_except /\ UNCHANGED <<baseVars, loadingVars, sessionVars>>
    \/ save_crash /\ UNCHANGED <<baseVars, loadingVars, sessionVars>>

SpecSave == InitSave /\ [][NextSave]_vars

(***************************************************************************)
(* Properties of the caches (Spec).                                        *)
(*                                                                         *)
(* res describes the call that returned last; every edit of the source and *)
(* every damage to the cache resets it, so while res.t is "atlas" or       *)
(* "index" the source is the one that call read.                           *)
(***************************************************************************)
SourceDecodes == source.t = "file" /\ cv2_imread(source.bytes).t = "img"
CurrentRaster == pack_image(cv2_imread(source.bytes).img)

\* C1: a RegionAtlas load uses the cached artifact if and only if that
\* artifact was built from the current bytes of the source image, and the
\* raster it returns is that of the current bytes.
C1_CacheUsedIffBuiltFromCurrentBytes ==
    res.t = "atlas" =>
        /\ res.hit <=> res.fresh
        /\ res.packed_map = CurrentRaster

\* C2: after a crash during the persistence step of a rebuild (of a source
\* image that exists and decodes), the cache files are, all of them, either
\* what they were before the rebuild or what the rebuild set out to write.
C2_CrashLeavesOldOrNewCache ==
    (res.t = "crash" /\ SourceDecodes) =>
        (Disk = res.before \/ Disk = res.after)

\* C3: whatever the cache files held, a load of a source image that exists
\* and decodes does not raise, returns the raster, bounds and dense index of
\* the current source, and leaves a cache that is valid for it.
C3_LoadHealsAnyCacheState ==
    (pc = "idle" /\ SourceDecodes) =>
        /\ res.t # "raise"
        /\ res.t = "atlas" =>
              /\ res.packed_map = CurrentRaster
              /\ res.region_bounds = compute_bounds(CurrentRaster)
              /\ is_cache_valid(map_file, meta_file, source.mtime)
              /\ BuiltFromBytes(map_file, meta_file, source.bytes)
        /\ res.t = "index" =>
              /\ res.unique_ids = np_unique(CurrentRaster)
              /\ res.dense_map = np_unique_inverse(CurrentRaster)
              /\ load_from_cache(index_file,
                                 compute_file_hash(source)).t = "some"

\* C4: while the source image does not exist, no load returns a raster or
\* an index and none writes a cache artifact: the load raises.
C4_MissingSourceRaises ==
    source.t = "missing" =>
        /\ res.t \notin {"atlas", "index"}
        /\ pc = "idle"

\* C5: of two consecutive loads of the same unmodified source image, the
\* second returns the raster and bounds (the index arrays) of the first and
\* does no recompute work: no decode, no bounds or unique scan, no write.
C5_SecondLoadIsPureCacheHit ==
    /\ (res.t = "atlas" /\ prev.t = "atlas") =>
          /\ res.packed_map = prev.packed_map
          /\ res.region_bounds = prev.region_bounds
          /\ res.work = NoWork
    /\ (res.t = "index" /\ prev.t = "index") =>
          /\ res.unique_ids = prev.unique_ids
          /\ res.dense_map = prev.dense_map
          /\ res.work = [unique |-> 0, writes |-> 0]

\* A second load right after a load that had to bake the image.
C5_Witness ==
    /\ res.t = "atlas" /\ prev.t = "atlas"
    /\ ~prev.hit /\ res.hit

(***************************************************************************)
(* Properties of the codec (SpecCodec) and of a built atlas (SpecAtlas).   *)
(***************************************************************************)

\* C6: after a rebuild every nonzero id of the packed raster has an entry in
\* region_bounds, the entry (minRow, maxRow, minCol, maxCol) is the tight
\* inclusive bounding box of the pixels of that id (all of them inside, one
\* of them on each of the four edges), and id 0 has no entry.
C6_BoundsAreTightBoxes ==
    atlas.state = "ready" =>
        LET pm == atlas.packed_map
            rb == atlas.region_bounds
        IN  /\ 0 \notin DOMAIN rb
            /\ \A id \in {pm[p] : p \in DOMAIN pm} \ {0} :
                  /\ id \in DOMAIN rb
                  /\ \A p \in DOMAIN pm :
                        pm[p] = id =>
                            /\ rb[id][1] <= p[1] /\ p[1] <= rb[id][2]
                            /\ rb[id][3] <= p[2] /\ p[2] <= rb[id][4]
                  /\ \E p \in DOMAIN pm : pm[p] = id /\ p[1] = rb[id][1]
                  /\ \E p \in DOMAIN pm : pm[p] = id /\ p[1] = rb[id][2]
                  /\ \E p \in DOMAIN pm : pm[p] = id /\ p[2] = rb[id][3]
                  /\ \E p \in DOMAIN pm : pm[p] = id /\ p[2] = rb[id][4]

\* A baked raster with background and two regions, one of them lying on a
\* diagonal, so that its box holds pixels of other ids.
C6_Witness ==
    /\ atlas.state = "ready"
    /\ {atlas.packed_map[p] : p \in Pix} = {0, 5, 256}
    /\ atlas.packed_map[<<0, 0>>] = 5
    /\ atlas.packed_map[<<1, 1>>] = 5
    /\ atlas.region_bounds[5] = <<0, 1, 0, 1>>

\* C7: unpack_color(pack_color(r, g, b)) = (r, g, b) for bytes r, g, b,
\* with pack_color(r, g, b) = b | (g << 8) | (r << 16), which on bytes is
\* b + 256 g + 65536 r; and pack_color(unpack_color(id)) = id for
\* 0 <= id < 2^24.
C7_PackUnpackRoundTrip ==
    /\ codec.op = "pack_unpack" =>
          /\ codec.rgb = <<codec.r, codec.g, codec.b>>
          /\ codec.id = codec.b + 256 * codec.g + 65536 * codec.r
    /\ codec.op = "unpack_pack" => codec.back = codec.id

\* A round trip of a colour whose three bytes all differ and are nonzero.
C7_Witness ==
    /\ codec.op = "pack_unpack"
    /\ codec.r = 255 /\ codec.g = 128 /\ codec.b = 1
    /\ codec.id = 16744449

\* C8: get_region_at(x, y) returns the raster value at row y, column x when
\* 0 <= x < width and 0 <= y < height, returns 0 otherwise, never raises.
C8_GetRegionAtTotal ==
    query.op = "get_region_at" =>
        query.res =
            [t |-> "return",
             v |-> IF query.x \in 0 .. (ImgW - 1) /\ query.y \in 0 .. (ImgH - 1)
                   THEN pack_image(atlas.img)[<<query.y, query.x>>]
                   ELSE 0]

\* A lookup left of and above a raster whose last pixel is a region: the
\* coordinates numpy would wrap around.
C8_Witness ==
    /\ query.op = "get_region_at"
    /\ query.x = -1 /\ query.y = -1
    /\ atlas.packed_map[<<ImgH - 1, ImgW - 1>>] # 0
    /\ query.res.v = 0

(***************************************************************************)
(* Properties of the renderer (SpecRenderer).                              *)
(***************************************************************************)

\* C9: the dense mapping built for a raster is a bijection between the
\* distinct ids of the raster and [0, N): real_to_dense[dense_to_real[d]] = d
\* for every d in [0, N), dense_to_real[real_to_dense[r]] = r for every id r
\* of the raster, and no two real ids share a dense id.
C9_DenseMappingIsBijection ==
    renderer.state = "ready" =>
        LET d2r == renderer.dense_to_real
            r2d == renderer.real_to_dense
            found == renderer.ids_in_raster
        IN  /\ DOMAIN d2r = 0 .. (Cardinality(found) - 1)
            /\ DOMAIN r2d = found
            /\ \A d \in DOMAIN d2r : r2d[d2r[d]] = d
            /\ \A r \in found : d2r[r2d[r]] = r
            /\ \A r1 \in found, r2 \in found :
                  r2d[r1] = r2d[r2] => r1 = r2

\* A mapping built for a raster of three ids without background, in which
\* some id fills more than one pixel.
C9_Witness ==
    /\ renderer.state = "ready"
    /\ renderer.ids_in_raster = {3, 7, 9}
    /\ renderer.real_to_dense[3] = 0
    /\ renderer.real_to_dense[9] = 2
    /\ renderer.dense_to_real[1] = 7

\* C10: a renderer is never built over a raster with more distinct ids than
\* the LUT has cells (building the mapping fails instead), and no owned
\* region of the raster is left unpainted because its dense id lies at or
\* beyond the capacity.
C10_CapacityOverflowFails ==
    renderer.state = "ready" =>
        /\ Cardinality(DOMAIN renderer.dense_to_real) <= lut_dim * lut_dim
        /\ \A real_id \in DOMAIN renderer.cached_ownership :
              (real_id \in DOMAIN renderer.real_to_dense
               /\ renderer.real_to_dense[real_id] # 0) =>
                  /\ renderer.real_to_dense[real_id] \in LutCells
                  /\ renderer.lut_data[renderer.real_to_dense[real_id]][4] > 0


\* The colour _rebuild_lut_array resolves for an owner tag.
color_of(colors, tag) ==
    IF tag \in DOMAIN colors THEN colors[tag] ELSE <<100, 100, 100>>

\* The three colour components of a LUT cell.
rgb_of(cell) == <<cell[1], cell[2], cell[3]>>

\* The dense ids of the known members of a list of real ids, as a set.
known_dense(r, ids) ==
    {r.real_to_dense[ids[i]] :
        i \in {j \in DOMAIN ids : ids[j] \in DOMAIN r.real_to_dense}}

\* What the renderer shows as selected: the single-selection uniform, if
\* set, and the multi-selection set.
selection_of(r) ==
    (IF r.single_select_dense_id # -1 THEN {r.single_select_dense_id}
     ELSE {}) \cup r.multi_select_dense_ids

\* C11: after update_political_layer, for every (real id, owner tag) pair
\* whose real id has a dense id d other than 0, LUT[d] holds the colour
\* registered for the tag, or (100, 100, 100) if the tag has none; pairs with
\* an unknown real id are skipped; every cell not written for a pair of the
\* ownership is (0, 0, 0, 0).  Selection calls made since only move alpha.
C11_RebuildPaintsOwnership ==
    renderer.state = "ready" =>
        LET own == renderer.cached_ownership
            r2d == renderer.real_to_dense
            lut == renderer.lut_data
            written == {r2d[x] : x \in {y \in DOMAIN own : y \in DOMAIN r2d}}
                           \ {0}
        IN  /\ \A real_id \in DOMAIN own :
                  (real_id \in DOMAIN r2d /\ r2d[real_id] # 0) =>
                      /\ r2d[real_id] \in DOMAIN lut
                      /\ rgb_of(lut[r2d[real_id]])
                             = color_of(renderer.cached_colors, own[real_id])
            /\ \A d \in DOMAIN lut :
                  d \notin written => lut[d] = <<0, 0, 0, 0>>

\* C12 as stated: with region r owned and painted, set_highlight([r]) sets
\* the alpha of LUT[denseOf(r)] to 255 and changes no other cell.
C12_SingleSelectRaisesAlpha ==
    renderer.state = "ready" =>
        \A r \in InputIds :
            LET r2d == renderer.real_to_dense
                lut == renderer.lut_data
            IN  (/\ r \in DOMAIN renderer.cached_ownership
                 /\ r \in DOMAIN r2d
                 /\ r2d[r] \in DOMAIN lut
                 /\ lut[r2d[r]][4] > 0) =>
                    LET after == set_highlight_of(renderer, <<r>>)
                    IN  /\ after.lut_data[r2d[r]][4] = 255
                        /\ \A e \in DOMAIN lut \ {r2d[r]} :
                              after.lut_data[e] = lut[e]

\* C12 as amended: with region r owned and painted, set_highlight([r]) makes
\* denseOf(r) the single-selection uniform, empties the multi-selection,
\* leaves LUT[denseOf(r)] with its colour and alpha 200, and changes no other
\* cell except that the painted cells of a multi-selection active before the
\* call return to alpha 200.
C12_SingleSelectUsesUniform ==
    renderer.state = "ready" =>
        \A r \in InputIds :
            LET r2d == renderer.real_to_dense
                lut == renderer.lut_data
                multi == renderer.multi_select_dense_ids
            IN  (/\ r \in DOMAIN renderer.cached_ownership
                 /\ r \in DOMAIN r2d
                 /\ r2d[r] \in DOMAIN lut
                 /\ lut[r2d[r]][4] > 0) =>
                    LET after == set_highlight_of(renderer, <<r>>)
                    IN  /\ after.single_select_dense_id = r2d[r]
                        /\ after.multi_select_dense_ids = {}
                        /\ after.lut_data[r2d[r]]
                               = <<lut[r2d[r]][1], lut[r2d[r]][2],
                                   lut[r2d[r]][3], 200>>
                        /\ \A e \in DOMAIN lut \ {r2d[r]} :
                              after.lut_data[e] =
                                  IF e \in multi /\ lut[e][4] > 0
                                  THEN <<lut[e][1], lut[e][2], lut[e][3], 200>>
                                  ELSE lut[e]

\* Region 5, owned by RED and painted, is the single selection; its cell
\* still has alpha 200.
C12_Witness ==
    /\ renderer.state = "ready"
    /\ 5 \in DOMAIN renderer.cached_ownership
    /\ 5 \in DOMAIN renderer.real_to_dense
    /\ renderer.real_to_dense[5] = 2
    /\ renderer.single_select_dense_id = 2
    /\ renderer.multi_select_dense_ids = {}
    /\ renderer.lut_data[2] = <<200, 0, 0, 200>>

\* C13: LUT cell 0 is (0, 0, 0, 0) in every state, whatever the ownership and
\* the selection.
C13_CellZeroTransparent ==
    renderer.state = "ready" => renderer.lut_data[0] = <<0, 0, 0, 0>>

\* The real id with dense id 0 is owned and is in the multi-selection, and
\* another cell is painted.
C13_Witness ==
    /\ renderer.state = "ready"
    /\ \E real_id \in DOMAIN renderer.cached_ownership :
          /\ real_id \in DOMAIN renderer.real_to_dense
          /\ renderer.real_to_dense[real_id] = 0
    /\ 0 \in renderer.multi_select_dense_ids
    /\ renderer.lut_data[1][4] = 255
    /\ renderer.lut_data[0] = <<0, 0, 0, 0>>

\* C14: every painted LUT cell has alpha 255 if its dense id is in the
\* multi-selection set and alpha 200 otherwise, also after a rebuild made
\* while a multi-selection is active.
C14_AlphaFollowsMultiSelection ==
    renderer.state = "ready" =>
        \A d \in DOMAIN renderer.lut_data :
            renderer.lut_data[d][4] > 0 =>
                renderer.lut_data[d][4] =
                    IF d \in renderer.multi_select_dense_ids THEN 255 ELSE 200

\* Three painted cells, two of them selected, the third not; the selected
\* ones were painted with the colour of the last rebuild.
C14_Witness ==
    /\ renderer.state = "ready"
    /\ renderer.multi_select_dense_ids = {1, 2}
    /\ renderer.lut_data[1] = <<200, 0, 0, 255>>
    /\ renderer.lut_data[2] = <<100, 100, 100, 255>>
    /\ renderer.lut_data[3][4] = 200


\* C15: with multi-selection A active, a set_highlight call that makes the
\* multi-selection B assigns exactly the cells of the symmetric difference
\* of A and B: no cell that is in both, and none that is in neither.  Stated
\* for the calls in which every cell of A and of B is painted.
C15_WritesAreSymmetricDifference ==
    renderer.state = "ready" =>
        \A ids \in IdLists :
            LET A == renderer.multi_select_dense_ids
                valid == valid_dense_ids_of(renderer.real_to_dense, ids)
                B == SeqRange(valid)
                lut == renderer.lut_data
            IN  (/\ A # {}
                 /\ Len(valid) >= 2
                 /\ \A d \in A \cup B : d \in DOMAIN lut /\ lut[d][4] > 0) =>
                    highlight_writes(renderer, ids) = (A \ B) \cup (B \ A)

\* A selection call leaves the colour of a cell alone, leaves a cell with
\* alpha 0 alone, and leaves a painted cell with alpha 200 or 255.
only_alpha_moved(before, after) ==
    /\ DOMAIN after.lut_data = DOMAIN before.lut_data
    /\ \A d \in DOMAIN before.lut_data :
          /\ rgb_of(after.lut_data[d]) = rgb_of(before.lut_data[d])
          /\ before.lut_data[d][4] = 0 =>
                 after.lut_data[d] = before.lut_data[d]
          /\ before.lut_data[d][4] > 0 => after.lut_data[d][4] \in {200, 255}

\* C16: no set_highlight or clear_highlight call changes a LUT cell whose
\* alpha is 0 or the R, G or B of any cell; it only moves the alpha of
\* painted cells between 200 and 255.
C16_SelectionOnlyMovesAlpha ==
    renderer.state = "ready" =>
        /\ only_alpha_moved(renderer, clear_highlight_of(renderer))
        /\ \A ids \in IdLists :
              only_alpha_moved(renderer, set_highlight_of(renderer, ids))

\* A multi-selection of an unpainted cell and a painted one: the first is
\* still (0, 0, 0, 0), the second has its colour and alpha 255.
C16_Witness ==
    /\ renderer.state = "ready"
    /\ renderer.multi_select_dense_ids = {1, 2}
    /\ renderer.lut_data[1] = <<0, 0, 0, 0>>
    /\ renderer.lut_data[2] = <<200, 0, 0, 255>>

\* After a change from a multi-selection to one region or to none: the
\* multi-selection set and its copy are empty and no cell has alpha 255.
residue_cleared(after) ==
    /\ after.multi_select_dense_ids = {}
    /\ after.prev_multi_select_dense_ids = {}
    /\ \A d \in DOMAIN after.lut_data : after.lut_data[d][4] # 255

C18_SelectionIsKnownMembers ==
    renderer.state = "ready" =>
        \A ids \in IdLists :
            LET after == set_highlight_of(renderer, ids)
            IN  /\ selection_of(after) = known_dense(renderer, ids)
                /\ \A d \in DOMAIN after.lut_data :
                      (d \in renderer.multi_select_dense_ids
                       /\ d \notin known_dense(renderer, ids)) =>
                          after.lut_data[d][4] # 255


(***************************************************************************)
(* Properties of render_country_overlay (SpecOverlay).                     *)
(***************************************************************************)

\* The ids that occur in the loaded raster.
ids_in_raster_of(a) == {a.packed_map[p] : p \in DOMAIN a.packed_map}

\* C19: render_country_overlay returns (None, 0, 0), and does not raise, for
\* the empty tuple and for every tuple none of whose members occurs in the
\* loaded raster.
C19_NoMembersGivesNone ==
    query.op = "render_country_overlay" =>
        ((\A i \in DOMAIN query.region_ids :
              query.region_ids[i] \notin ids_in_raster_of(atlas))
         => query.res = NoOverlay)

\* A call for an id that no pixel holds, on a raster that does hold regions.
C19_Witness ==
    /\ query.op = "render_country_overlay"
    /\ query.region_ids = <<7, 7>>
    /\ ids_in_raster_of(atlas) = {0, 5, 256}
    /\ query.res = NoOverlay

\* C20: the rows and columns render_country_overlay processes are those of
\* the union of the boxes of the requested regions that have bounds, widened
\* by thickness + 2 rows and columns on each of the four sides and cut at
\* the raster's edges; they lie inside the raster and hold every pixel of
\* those regions, and the offsets returned are the first column and row.
C20_RoiIsPaddedUnionOfBoxes ==
    (query.op = "render_country_overlay" /\ query.res.overlay # None) =>
        LET rb == atlas.region_bounds
            asked == {query.region_ids[i] : i \in DOMAIN query.region_ids}
                         \cap DOMAIN rb
            pad == query.thickness + 2
            y_lo == Max2(0, SetMin({rb[r][1] : r \in asked}) - pad)
            y_hi == Min2(atlas.height - 1,
                         SetMax({rb[r][2] : r \in asked}) + pad)
            x_lo == Max2(0, SetMin({rb[r][3] : r \in asked}) - pad)
            x_hi == Min2(atlas.width - 1,
                         SetMax({rb[r][4] : r \in asked}) + pad)
            rows == query.res.y_offset
                        .. (query.res.y_offset + query.res.overlay.h - 1)
            cols == query.res.x_offset
                        .. (query.res.x_offset + query.res.overlay.w - 1)
        IN  /\ rows = y_lo .. y_hi
            /\ cols = x_lo .. x_hi
            /\ rows \subseteq 0 .. (atlas.height - 1)
            /\ cols \subseteq 0 .. (atlas.width - 1)
            /\ \A p \in DOMAIN atlas.packed_map :
                  atlas.packed_map[p] \in asked =>
                      p[1] \in rows /\ p[2] \in cols
            /\ query.res.x_offset = x_lo
            /\ query.res.y_offset = y_lo


(***************************************************************************)
(* Further properties of the renderer (SpecRenderer).                      *)
(***************************************************************************)

\* C27: in every dense mapping dense id 0 stands for the background real id
\* 0 and for no region, so that update_political_layer paints every owned
\* region whose nonzero real id occurs in the raster, also when the raster
\* has no background pixel.
C27_DenseZeroIsBackground ==
    renderer.state = "ready" =>
        /\ renderer.dense_to_real[0] = 0
        /\ \A real_id \in DOMAIN renderer.cached_ownership :
              (real_id # 0 /\ real_id \in renderer.ids_in_raster) =>
                  /\ renderer.real_to_dense[real_id] \in DOMAIN renderer.lut_data
                  /\ renderer.lut_data[renderer.real_to_dense[real_id]][4] > 0

\* C29: at most one selection mechanism is active: when
\* single_select_dense_id is not -1 the multi-selection set is empty, and
\* when the multi-selection set is not empty single_select_dense_id is -1.
C29_OneSelectionMechanism ==
    renderer.state = "ready" =>
        \/ renderer.single_select_dense_id = -1
        \/ renderer.multi_select_dense_ids = {}

\* A single selection is active, and selecting two regions switches to the
\* multi-selection and resets the uniform.
C29_Witness ==
    /\ renderer.state = "ready"
    /\ renderer.single_select_dense_id = 2
    /\ renderer.multi_select_dense_ids = {}
    /\ {3, 5} \subseteq DOMAIN renderer.real_to_dense
    /\ set_highlight_of(renderer, <<3, 5>>).multi_select_dense_ids = {1, 2}
    /\ set_highlight_of(renderer, <<3, 5>>).single_select_dense_id = -1


(***************************************************************************)
(* Properties of the world-position lookup (SpecWorldPos).                 *)
(***************************************************************************)

\* C30: for a world position (wx, wy) with 0 <= wx < width and
\* 0 <= wy < height, get_region_id_at_world_pos returns the raster value at
\* column floor(wx), row height - 1 - floor(wy); for every other position
\* it returns 0.
C30_WorldPosMapsBottomLeft ==
    query.op = "get_region_id_at_world_pos" =>
        query.res =
            [t |-> "return",
             v |-> IF /\ 0 <= query.wx2 /\ query.wx2 < 2 * atlas.width
                      /\ 0 <= query.wy2 /\ query.wy2 < 2 * atlas.height
                   THEN atlas.packed_map[
                            <<atlas.height - 1 - (query.wy2 \div 2),
                              query.wx2 \div 2>>]
                   ELSE 0]


(***************************************************************************)
(* Properties of the contour memo (SpecMemo).  atlas.calls is the history  *)
(* of the calls, the last of them being the call query describes.          *)
(***************************************************************************)

\* What C21 takes for the key of a call: the set of its ids, the colour and
\* the thickness.
normal_key(args) ==
    <<SeqRange(args[1]), border_color_of(args), thickness_of(args)>>

\* C21 as stated: a call whose ids, as a set, and whose colour and thickness
\* are those of an earlier call is a cache hit and computes nothing.
C21_SameIdSetSharesEntry ==
    query.op = "cached_render_country_overlay" =>
        LET calls == atlas.calls
            n == Len(calls)
        IN  (\E j \in 1 .. (n - 1) :
                 normal_key(calls[j]) = normal_key(calls[n]))
            => (query.hit /\ ~query.computed)

\* C21 as amended: the memo is keyed by the arguments as passed.  A call
\* whose arguments equal those of an earlier call, with fewer than maxsize
\* other keys used in between, is a hit that computes nothing and returns
\* what the function returns for them; a call whose arguments equal those
\* of no earlier call is a miss, whatever set its ids form.
C21_EqualArgsShareEntry ==
    query.op = "cached_render_country_overlay" =>
        LET calls == atlas.calls
            n == Len(calls)
        IN  /\ \A j \in 1 .. (n - 1) :
                  (/\ calls[j] = calls[n]
                   /\ Cardinality({calls[k] : k \in (j + 1) .. (n - 1)}
                                      \ {calls[n]}) < maxsize)
                  => /\ query.hit /\ ~query.computed
                     /\ query.res = wrapped_call(atlas, calls[n])
            /\ (\A j \in 1 .. (n - 1) : calls[j] # calls[n]) =>
                   (~query.hit /\ query.computed)

\* The ids 5 and 256 were asked for in one order, then in the other, then in
\* the first order again: the third call is a hit and the memo holds both.
C21_Witness ==
    /\ query.op = "cached_render_country_overlay"
    /\ atlas.calls = << << <<5, 256>> >>, << <<256, 5>> >>, << <<5, 256>> >> >>
    /\ query.hit
    /\ Len(atlas.memo) = 2
    /\ query.res.overlay # None

\* The place of the last call with a key before the call query describes.
last_use(key) ==
    SetMax({j \in 1 .. (Len(atlas.calls) - 1) : atlas.calls[j] = key})

\* C22: the memo never holds more than maxsize results, and when a new key
\* arrives at a full memo the entry dropped is the least recently used one:
\* every entry that stays was used after it.
C22_MemoBoundedLru ==
    atlas.state = "ready" =>
        /\ Len(atlas.memo) <= maxsize
        /\ Cardinality(memo_keys(atlas.memo)) = Len(atlas.memo)
        /\ (query.op = "cached_render_country_overlay"
            /\ query.evicted # {}) =>
               /\ Len(atlas.memo) = maxsize
               /\ \A e \in query.evicted :
                     /\ e \notin memo_keys(atlas.memo)
                     /\ \A k \in memo_keys(atlas.memo) \ {query.args} :
                           last_use(k) > last_use(e)

\* Two keys filled the memo, the older one was used again, and a third key
\* then dropped the other one, which had been inserted later.
C22_Witness ==
    /\ query.op = "cached_render_country_overlay"
    /\ atlas.calls = << << <<5>> >>, << <<5, 5>> >>, << <<5>> >>,
                        << <<5, 256>> >> >>
    /\ query.evicted = {<< <<5, 5>> >>}
    /\ memo_keys(atlas.memo) = {<< <<5>> >>, << <<5, 256>> >>}


(***************************************************************************)
(* Properties of the loading view (SpecLoading).                           *)
(***************************************************************************)

C26_ActionsAppliedOnceInOrder ==
    session.state = "session" =>
        /\ \A i \in DOMAIN session.applied : session.applied[i] = i
        /\ \A a \in 1 .. session.submitted :
              \/ \E i \in DOMAIN session.applied : session.applied[i] = a
              \/ \E i \in DOMAIN session.action_queue :
                    session.action_queue[i] = a

(***************************************************************************)
(* Properties of the save directory (SpecSave).                            *)
(***************************************************************************)

\* C23: save_game is atomic: at every moment, also after a crash or an
\* exception, the target directory holds the complete previous save (if
\* there was one) or the complete save being written, never a partial
\* directory, and never nothing once a save existed.
C23_SaveIsAtomic ==
    saves.state = "disk" =>
        IF saves.last = NoDir
        THEN saves.target = NoDir
        ELSE /\ IsComplete(saves.target)
             /\ saves.target = saves.last


(***************************************************************************)
(* Properties of the index cache (Spec), continued.                        *)
(***************************************************************************)

\* C28: every (unique_ids, dense_map) pair get_indices returns, on a hit
\* or on a miss, encodes the raster passed to that call:
\* unique_ids[dense_map[p]] = map_data_array[p] for every pixel p.
C28_IndicesEncodeRasterPassed ==
    res.t = "index" =>
        /\ DOMAIN res.dense_map = DOMAIN res.arr
        /\ \A p \in DOMAIN res.arr :
              /\ res.dense_map[p] \in DOMAIN res.unique_ids
              /\ res.unique_ids[res.dense_map[p]] = res.arr[p]


(***************************************************************************)
(* Properties of the atlas (SpecAtlas), continued.                         *)
(***************************************************************************)

\* C24: during a rebuild the number of passes over the whole raster made
\* to compute the bounding boxes does not grow with the number of distinct
\* region ids: it is what a raster of the same shape with no region takes.
C24_ScansIndependentOfRegions ==
    atlas.state = "ready" =>
        bounds_scans(atlas.packed_map)
            = bounds_scans([p \in DOMAIN atlas.packed_map |-> 0])

=============================================================================
